---- MODULE Spec2Model ----
(***************************************************************************)
(* Console control-flow engine of the ShadowPay CLI (package cli):         *)
(* the Model / Update view router, the inputForm widget and the commands   *)
(* (tea.Cmd closures) that Update hands to the bubbletea runtime.          *)
(*                                                                         *)
(* Text is modelled as a sequence of tokens: "" is <<>>, concatenation is  *)
(* \o, and "contains" is membership of a token.                            *)
(***************************************************************************)
EXTENDS Integers, Sequences, FiniteSets, TLC

(* ---------------------------- bounds ----------------------------------- *)
\* Spec: commands that may be running or waiting for delivery at the same
\* time, and characters typed into one form
MaxPending == 1
MaxTyped == 1
\* SpecRace: commands in flight in the runs that race commands
MaxRacePending == 2
\* SpecForm: submits of the open form, characters typed into it, and
\* focus-forward presses counted from its creation
MaxSubmits == 2
MaxFormTyped == 2
MaxForward == 7
\* messages the event loop still hands to Update between a tea.Quit returned
\* by Update and the QuitMsg that ends the loop
MaxAfterQuit == 1

(* ---------------------------- views ------------------------------------ *)
mainMenuView == 0
paymentView == 1
poolView == 2
tokenView == 3
authorizationView == 4
merchantView == 5
webhookView == 6
shadowIDView == 7
settingsView == 8

Views == mainMenuView..settingsView
SubViews == Views \ {mainMenuView}
\* sub-views that handleEnter guards with m.client == nil
BackendViews == paymentView..shadowIDView

(* ---------------------------- inputs ----------------------------------- *)
\* printable keys: a digit, and "q", which is the quit key outside a form
Chars == {"5", "q"}
Keys == {"up", "down", "enter", "esc", "ctrl+c", "tab", "shift+tab"} \cup Chars
\* terminal sizes reported by tea.WindowSizeMsg
Widths == {80}
Heights == {24}
\* failure reasons of the remote client
Reasons == {"insufficient balance"}
\* what a remote call answers: a failure reason, or a response whose
\* displayed identifier fields are shorter than 20 bytes or not
Backend == [fail : Reasons, short : {FALSE}] \cup [fail : {""}, short : BOOLEAN]
\* labels a loadingMsg may carry
LoadingTexts == {"Processing"}

successStyle == "successStyle"
errorStyle == "errorStyle"

VARIABLES
    client,        \* Model.client # nil
    currentView,   \* Model.currentView
    cursor,        \* Model.cursor
    width,         \* Model.width
    height,        \* Model.height
    message,       \* Model.message
    messageStyle,  \* Model.messageStyle
    loading,       \* Model.loading
    loadingMsg,    \* Model.loadingMsg
    showingInput,  \* Model.showingInput
    inputForm,     \* Model.inputForm
    pending,       \* commands handed to the runtime, in dispatch order
    exit,          \* "running", "quitting" (tea.Quit returned, its QuitMsg not
                   \* read yet), "quit" (the loop ended) or "panic"
    work,          \* the menu item the operator activates in this run
    last,          \* the kind of message Update handled last, whether a
                   \* form was shown when it arrived, and for a command
                   \* result its place in the dispatch order
    afterQuit,     \* messages handed to Update since it returned tea.Quit
    entered        \* SpecForm: what the operator did to the open form: the
                   \* text typed per field, and the confirm / focus-forward
                   \* presses counted while nothing else was pressed

vars == <<client, currentView, cursor, width, height, message, messageStyle,
          loading, loadingMsg, showingInput, inputForm, pending, exit, work, last,
          afterQuit, entered>>

modelVars == <<client, currentView, cursor, width, height, message,
               messageStyle, loading, loadingMsg, showingInput, inputForm>>

(* ---------------------------- commands --------------------------------- *)
NilCmd == [kind |-> "nil", op |-> "", args |-> <<>>]
\* tea.Batch of the text inputs' cursor commands; their messages reach no
\* case of Update's type switch
BatchCmd == [kind |-> "batch", op |-> "", args |-> <<>>]
QuitCmd == [kind |-> "quit", op |-> "", args |-> <<>>]
OpCmd(op, args) == [kind |-> "op", op |-> op, args |-> args]

(* ---------------------------- input form ------------------------------- *)
\* the zero value of inputForm
NoForm == [title |-> "", inputs |-> <<>>, focusIndex |-> 0, submitFunc |-> ""]

newInputFormFocusesEveryField(title, fields, submitFunc) ==
    [title |-> title,
     inputs |-> [i \in 1..Len(fields) |->
                    [Placeholder |-> fields[i], value |-> <<>>, focus |-> TRUE]],
     focusIndex |-> 0,
     submitFunc |-> submitFunc]

newInputForm(title, fields, submitFunc) ==
    [title |-> title,
     inputs |-> [i \in 1..Len(fields) |->
                    [Placeholder |-> fields[i], value |-> <<>>, focus |-> (i = 1)]],
     focusIndex |-> 0,
     submitFunc |-> submitFunc]

\* values[i] = input.Value(), in field order
FormValues(f) == [i \in 1..Len(f.inputs) |-> f.inputs[i].value]

RECURSIVE SumLen(_)
SumLen(s) == IF s = <<>> THEN 0 ELSE Len(Head(s)) + SumLen(Tail(s))

Typed(f) == SumLen(FormValues(f))

\* the focus cycling of inputForm.Update: new focusIndex
CycleFocusNoWrap(f, s) ==
    LET moved == IF s \in {"up", "shift+tab"} THEN f.focusIndex - 1
                 ELSE f.focusIndex + 1
    IN  IF moved > Len(f.inputs) - 1 THEN Len(f.inputs) - 1
        ELSE IF moved < 0 THEN 0
        ELSE moved

CycleFocusWrapsLate(f, s) ==
    LET moved == IF s \in {"up", "shift+tab"} THEN f.focusIndex - 1
                 ELSE f.focusIndex + 1
    IN  IF moved > Len(f.inputs) THEN 0
        ELSE IF moved < 0 THEN Len(f.inputs) - 1
        ELSE moved

CycleFocus(f, s) ==
    LET moved == IF s \in {"up", "shift+tab"} THEN f.focusIndex - 1
                 ELSE f.focusIndex + 1
    IN  IF moved > Len(f.inputs) - 1 THEN 0
        ELSE IF moved < 0 THEN Len(f.inputs) - 1
        ELSE moved

\* Focus() on the input at focusIndex, Blur() on the others
RefocusWithoutBlur(f, idx) ==
    [f EXCEPT !.focusIndex = idx,
              !.inputs = [i \in 1..Len(f.inputs) |->
                            [f.inputs[i] EXCEPT !.focus = (@ \/ i - 1 = idx)]]]

Refocus(f, idx) ==
    [f EXCEPT !.focusIndex = idx,
              !.inputs = [i \in 1..Len(f.inputs) |->
                            [f.inputs[i] EXCEPT !.focus = (i - 1 = idx)]]]

\* ti.CharLimit: the most characters a text input of a form holds
CharLimit == 156

\* every input gets the message; a textinput that is not focused ignores it,
\* and a focused one that already holds CharLimit characters drops the key
updateInputs(f, key) ==
    [f EXCEPT !.inputs = [i \in 1..Len(f.inputs) |->
        IF f.inputs[i].focus /\ key \in Chars /\ Len(f.inputs[i].value) < CharLimit
        THEN [f.inputs[i] EXCEPT !.value = Append(@, key)]
        ELSE f.inputs[i]]]

\* inputForm.Update: the form after the key and the Cmd returned
inputFormUpdateSubmitsOnAnyField(f, key) ==
    IF key \in {"tab", "shift+tab", "enter", "up", "down"}
    THEN IF key = "enter"
         THEN [form |-> f, cmd |-> OpCmd(f.submitFunc, FormValues(f))]
         ELSE [form |-> Refocus(f, CycleFocus(f, key)), cmd |-> BatchCmd]
    ELSE [form |-> updateInputs(f, key), cmd |-> BatchCmd]

inputFormUpdate(f, key) ==
    IF key \in {"tab", "shift+tab", "enter", "up", "down"}
    THEN IF key = "enter" /\ f.focusIndex = Len(f.inputs) - 1
         THEN [form |-> f, cmd |-> OpCmd(f.submitFunc, FormValues(f))]
         ELSE [form |-> Refocus(f, CycleFocus(f, key)), cmd |-> BatchCmd]
    ELSE [form |-> updateInputs(f, key), cmd |-> BatchCmd]

(* ---------------------------- menus ------------------------------------ *)
\* what a selection handler does for the item under the cursor
ShowForm(title, fields, op) ==
    [kind |-> "form", title |-> title, fields |-> fields, op |-> op, text |-> <<>>]
Dispatch(op) ==
    [kind |-> "cmd", title |-> "", fields |-> <<>>, op |-> op, text |-> <<>>]
SetMessage(text) ==
    [kind |-> "msg", title |-> "", fields |-> <<>>, op |-> "", text |-> text]
Back == [kind |-> "back", title |-> "", fields |-> <<>>, op |-> "", text |-> <<>>]
NoCase == [kind |-> "none", title |-> "", fields |-> <<>>, op |-> "", text |-> <<>>]

SettleText == <<"Settle is complex - requires x402 payload. Use API directly.">>
ApiKeyText == <<"Please set API key in Settings first">>

handlePaymentSelection(c) ==
    CASE c = 0 -> ShowForm("Deposit to Payment Account",
                           <<"Wallet Address", "Amount (SOL)">>, "performPaymentDeposit")
      [] c = 1 -> ShowForm("Withdraw from Payment Account",
                           <<"Wallet Address", "Amount (SOL)">>, "performPaymentWithdraw")
      [] c = 2 -> ShowForm("Prepare ZK Payment",
                           <<"Receiver Commitment", "Amount (SOL)">>, "performPreparePayment")
      [] c = 3 -> ShowForm("Authorize Payment",
                           <<"Commitment", "Nullifier", "Amount (SOL)", "Merchant Wallet">>,
                           "performAuthorizePayment")
      [] c = 4 -> ShowForm("Verify Access Token", <<"Access Token">>, "performVerifyAccess")
      [] c = 5 -> SetMessage(SettleText)
      [] c = 6 -> Back
      [] OTHER -> NoCase

handlePoolSelection(c) ==
    CASE c = 0 -> ShowForm("Check Pool Balance", <<"Wallet Address">>, "performPoolBalance")
      [] c = 1 -> ShowForm("Deposit to Pool",
                           <<"Wallet Address", "Amount (SOL)">>, "performPoolDeposit")
      [] c = 2 -> ShowForm("Withdraw from Pool",
                           <<"Wallet Address", "Amount (SOL)">>, "performPoolWithdraw")
      [] c = 3 -> Dispatch("performGetDepositAddress")
      [] c = 4 -> Back
      [] OTHER -> NoCase

handleTokenSelection(c) ==
    CASE c = 0 -> Dispatch("performListTokens")
      [] c = 1 -> ShowForm("Add Token",
                           <<"Mint Address", "Symbol", "Decimals">>, "performAddToken")
      [] c = 2 -> ShowForm("Update Token",
                           <<"Mint Address", "New Symbol (optional)", "Enabled (true/false)">>,
                           "performUpdateToken")
      [] c = 3 -> ShowForm("Remove Token", <<"Mint Address">>, "performRemoveToken")
      [] c = 4 -> Back
      [] OTHER -> NoCase

handleAuthorizationSelection(c) ==
    CASE c = 0 -> ShowForm("Authorize Bot Spending",
                           <<"User Wallet", "Authorized Service", "Max Per Tx (SOL)",
                             "Max Daily (SOL)", "Valid Until (days from now)",
                             "User Signature (base58)">>,
                           "performAuthorizeSpending")
      [] c = 1 -> ShowForm("List Authorizations", <<"Wallet Address">>,
                           "performListAuthorizations")
      [] c = 2 -> ShowForm("Revoke Authorization",
                           <<"User Wallet", "Authorized Service", "User Signature (base58)">>,
                           "performRevokeAuthorization")
      [] c = 3 -> Back
      [] OTHER -> NoCase

handleMerchantSelection(c) ==
    CASE c = 0 -> Dispatch("performViewEarnings")
      [] c = 1 -> ShowForm("Get Analytics",
                           <<"Start Date (YYYY-MM-DD, optional)",
                             "End Date (YYYY-MM-DD, optional)">>,
                           "performGetAnalytics")
      [] c = 2 -> ShowForm("Withdraw Earnings",
                           <<"Amount (SOL)", "Destination Wallet">>, "performWithdrawEarnings")
      [] c = 3 -> ShowForm("Decrypt Amount",
                           <<"Encrypted Ciphertext (hex)", "Private Key (hex)">>,
                           "performDecryptAmount")
      [] c = 4 -> Back
      [] OTHER -> NoCase

handleWebhookSelection(c) ==
    CASE c = 0 -> ShowForm("Register Webhook",
                           <<"Webhook URL (https://...)", "Events (comma-separated)",
                             "Secret (optional)">>,
                           "performRegisterWebhook")
      [] c = 1 -> Dispatch("performGetWebhookConfig")
      [] c = 2 -> ShowForm("Test Webhook",
                           <<"Webhook ID (optional)", "Event Type (optional)">>,
                           "performTestWebhook")
      [] c = 3 -> ShowForm("View Webhook Logs",
                           <<"Webhook ID (optional)", "Limit (default 50)">>, "performViewLogs")
      [] c = 4 -> Dispatch("performGetWebhookStats")
      [] c = 5 -> ShowForm("Deactivate Webhook", <<"Webhook ID">>, "performDeactivateWebhook")
      [] c = 6 -> Back
      [] OTHER -> NoCase

handleShadowIDSelection(c) ==
    CASE c = 0 -> ShowForm("Auto Register ShadowID",
                           <<"Wallet Address", "Signature (base58)", "Message">>,
                           "performAutoRegister")
      [] c = 1 -> ShowForm("Register Commitment", <<"Poseidon Hash Commitment">>,
                           "performRegisterCommitment")
      [] c = 2 -> ShowForm("Get Merkle Proof", <<"Commitment">>, "performGetProof")
      [] c = 3 -> Dispatch("performGetTreeRoot")
      [] c = 4 -> ShowForm("Check Registration Status", <<"Commitment">>, "performCheckStatus")
      [] c = 5 -> Back
      [] OTHER -> NoCase

\* the sub-menu switch of handleEnter
Selection(view, c) ==
    CASE view = paymentView -> handlePaymentSelection(c)
      [] view = poolView -> handlePoolSelection(c)
      [] view = tokenView -> handleTokenSelection(c)
      [] view = authorizationView -> handleAuthorizationSelection(c)
      [] view = merchantView -> handleMerchantSelection(c)
      [] view = webhookView -> handleWebhookSelection(c)
      [] view = shadowIDView -> handleShadowIDSelection(c)
      [] OTHER -> NoCase

\* the menu items that open a form, start a command or set a message, and
\* the settings screen
WorkItems ==
    {w \in [view : BackendViews, item : 0..5] :
        Selection(w.view, w.item).kind \in {"form", "cmd", "msg"}}
    \cup {[view |-> settingsView, item |-> 0]}

getMaxCursor(view) == IF view = mainMenuView THEN 8 ELSE 5

\* number of menu entries each render function lists (Back / Exit included)
ItemCount(view) ==
    CASE view = mainMenuView -> 9
      [] view = paymentView -> 7
      [] view = poolView -> 5
      [] view = tokenView -> 5
      [] view = authorizationView -> 4
      [] view = merchantView -> 5
      [] view = webhookView -> 7
      [] view = shadowIDView -> 6
      [] OTHER -> 0

(* ---------------------------- command bodies --------------------------- *)
Digits == {"5"}
\* the value of a decimal digit
DigitValue(c) ==
    CASE c = "0" -> 0 [] c = "1" -> 1 [] c = "2" -> 2 [] c = "3" -> 3
      [] c = "4" -> 4 [] c = "5" -> 5 [] c = "6" -> 6 [] c = "7" -> 7
      [] c = "8" -> 8 [] OTHER -> 9
IsDigits(str) == str # <<>> /\ \A i \in 1..Len(str) : str[i] \in Digits
\* strconv.ParseFloat(s, 64) succeeds on a non-empty run of digits; a field
\* holds at most CharLimit of them, which is below the float64 range
ParseFloatOK(str) == IsDigits(str)

\* the decimal digits of the largest int (64 bit)
MaxIntDigits == <<9, 2, 2, 3, 3, 7, 2, 0, 3, 6, 8, 5, 4, 7, 7, 5, 8, 0, 7>>
RECURSIVE StripZeros(_)
StripZeros(str) ==
    IF Len(str) > 1 /\ Head(str) = "0" THEN StripZeros(Tail(str)) ELSE str
\* does the run of digits denote a value up to the largest int
FitsInt(str) ==
    LET n == StripZeros(str)
    IN  \/ Len(n) < Len(MaxIntDigits)
        \/ /\ Len(n) = Len(MaxIntDigits)
           /\ \/ \A i \in 1..Len(n) : DigitValue(n[i]) = MaxIntDigits[i]
              \/ \E k \in 1..Len(n) :
                    /\ DigitValue(n[k]) < MaxIntDigits[k]
                    /\ \A i \in 1..(k - 1) : DigitValue(n[i]) = MaxIntDigits[i]
\* the error of strconv.Atoi(s), "" for none
AtoiError(str) ==
    IF ~IsDigits(str) THEN "strconv: invalid syntax"
    ELSE IF ~FitsInt(str) THEN "strconv: value out of range"
    ELSE ""
AtoiOK(str) == AtoiError(str) = ""

\* what a command body does: the tea.Msg it returns, or a run-time panic;
\* called = the remote client was invoked
SuccessMsg(text) == [type |-> "success", text |-> text, called |-> TRUE]
BackendError(b) == [type |-> "error", text |-> <<b.fail>>, called |-> TRUE]
InputError(what, err) ==
    [type |-> "error", text |-> <<what, err>>, called |-> FALSE]
\* the error of strconv.ParseFloat on a string that is no number
FloatSyntax == "strconv: invalid syntax"
\* slice bounds out of range in s[:20]
SlicePanic == [type |-> "panic", text |-> <<>>, called |-> TRUE]

\* resp, err := client call; if err != nil return operationErrorMsg{err}
Call(b, text) == IF b.fail # "" THEN BackendError(b) ELSE SuccessMsg(text)
\* the same, for a body that formats resp.X[:20]
CallSliced(b, text) ==
    IF b.fail # "" THEN BackendError(b)
    ELSE IF b.short THEN SlicePanic
    ELSE SuccessMsg(text)

performPaymentDeposit(args, b) ==
    IF ~ParseFloatOK(args[2]) THEN InputError("invalid amount: ", FloatSyntax)
    ELSE Call(b, <<"Deposit transaction created!">>)
performPaymentWithdraw(args, b) ==
    IF ~ParseFloatOK(args[2]) THEN InputError("invalid amount: ", FloatSyntax)
    ELSE Call(b, <<"Withdraw transaction created!">>)
performPreparePayment(args, b) ==
    IF ~ParseFloatOK(args[2]) THEN InputError("invalid amount: ", FloatSyntax)
    ELSE CallSliced(b, <<"Payment prepared!">>)
performAuthorizePayment(args, b) ==
    IF ~ParseFloatOK(args[3]) THEN InputError("invalid amount: ", FloatSyntax)
    ELSE CallSliced(b, <<"Payment authorized!">>)
performVerifyAccess(args, b) == Call(b, <<"Access verification: ">>)
performPoolBalance(args, b) == Call(b, <<"Pool Balance: ">>)
performPoolDeposit(args, b) ==
    IF ~ParseFloatOK(args[2]) THEN InputError("invalid amount: ", FloatSyntax)
    ELSE Call(b, <<"Pool deposit transaction created!">>)
performPoolWithdraw(args, b) ==
    IF ~ParseFloatOK(args[2]) THEN InputError("invalid amount: ", FloatSyntax)
    ELSE Call(b, <<"Pool withdrawal created!">>)
performGetDepositAddress(args, b) == Call(b, <<"Pool Deposit Address:">>)
performListTokens(args, b) == Call(b, <<"Supported Tokens:">>)
performAddTokenSkipsParse(args, b) == Call(b, <<"Add Token: ">>)

performAddToken(args, b) ==
    IF ~AtoiOK(args[3])
    THEN InputError("invalid decimals: ", AtoiError(args[3]))
    ELSE Call(b, <<"Add Token: ">>)
performUpdateToken(args, b) == Call(b, <<"Update Token: ">>)
performRemoveToken(args, b) == Call(b, <<"Remove Token: ">>)
performViewEarnings(args, b) == Call(b, <<"Merchant Earnings:">>)
performGetAnalytics(args, b) == Call(b, <<"Analytics:">>)
performWithdrawEarnings(args, b) ==
    IF ~ParseFloatOK(args[1]) THEN InputError("invalid amount: ", FloatSyntax)
    ELSE Call(b, <<"Withdraw Earnings: ">>)
performDecryptAmount(args, b) == Call(b, <<"Decrypted Amount: ">>)
performRegisterWebhook(args, b) == Call(b, <<"Register Webhook: ">>)
performGetWebhookConfig(args, b) == Call(b, <<"Webhook Configuration:">>)
performTestWebhook(args, b) == Call(b, <<"Test Webhook: ">>)
\* an unparsable limit is ignored: the default of 50 is requested
performViewLogs(args, b) == Call(b, <<"Webhook Logs">>)
performGetWebhookStats(args, b) == Call(b, <<"Webhook Statistics:">>)
performDeactivateWebhook(args, b) == Call(b, <<"Deactivate Webhook: ">>)
performAutoRegister(args, b) == Call(b, <<"Auto Register: ">>)
performRegisterCommitment(args, b) == Call(b, <<"Register Commitment: ">>)
performGetProof(args, b) == CallSliced(b, <<"Merkle Proof:">>)
performGetTreeRoot(args, b) == Call(b, <<"Merkle Tree Root:">>)
performCheckStatus(args, b) == CallSliced(b, <<"Registration Status: ">>)
performAuthorizeSpending(args, b) ==
    IF ~AtoiOK(args[5])
    THEN InputError("invalid valid days: ", AtoiError(args[5]))
    ELSE Call(b, <<"Authorize Spending: ">>)
performListAuthorizations(args, b) == Call(b, <<"Authorizations for ">>)
performRevokeAuthorization(args, b) == Call(b, <<"Revoke Authorization: ">>)

\* running the closure a perform* function returned
CmdBody(op, args, b) ==
    CASE op = "performPaymentDeposit" -> performPaymentDeposit(args, b)
      [] op = "performPaymentWithdraw" -> performPaymentWithdraw(args, b)
      [] op = "performPreparePayment" -> performPreparePayment(args, b)
      [] op = "performAuthorizePayment" -> performAuthorizePayment(args, b)
      [] op = "performVerifyAccess" -> performVerifyAccess(args, b)
      [] op = "performPoolBalance" -> performPoolBalance(args, b)
      [] op = "performPoolDeposit" -> performPoolDeposit(args, b)
      [] op = "performPoolWithdraw" -> performPoolWithdraw(args, b)
      [] op = "performGetDepositAddress" -> performGetDepositAddress(args, b)
      [] op = "performListTokens" -> performListTokens(args, b)
      [] op = "performAddToken" -> performAddToken(args, b)
      [] op = "performUpdateToken" -> performUpdateToken(args, b)
      [] op = "performRemoveToken" -> performRemoveToken(args, b)
      [] op = "performViewEarnings" -> performViewEarnings(args, b)
      [] op = "performGetAnalytics" -> performGetAnalytics(args, b)
      [] op = "performWithdrawEarnings" -> performWithdrawEarnings(args, b)
      [] op = "performDecryptAmount" -> performDecryptAmount(args, b)
      [] op = "performRegisterWebhook" -> performRegisterWebhook(args, b)
      [] op = "performGetWebhookConfig" -> performGetWebhookConfig(args, b)
      [] op = "performTestWebhook" -> performTestWebhook(args, b)
      [] op = "performViewLogs" -> performViewLogs(args, b)
      [] op = "performGetWebhookStats" -> performGetWebhookStats(args, b)
      [] op = "performDeactivateWebhook" -> performDeactivateWebhook(args, b)
      [] op = "performAutoRegister" -> performAutoRegister(args, b)
      [] op = "performRegisterCommitment" -> performRegisterCommitment(args, b)
      [] op = "performGetProof" -> performGetProof(args, b)
      [] op = "performGetTreeRoot" -> performGetTreeRoot(args, b)
      [] op = "performCheckStatus" -> performCheckStatus(args, b)
      [] op = "performAuthorizeSpending" -> performAuthorizeSpending(args, b)
      [] op = "performListAuthorizations" -> performListAuthorizations(args, b)
      [] op = "performRevokeAuthorization" -> performRevokeAuthorization(args, b)

(* ---------------------------- messages --------------------------------- *)
KeyMsg(k) == [type |-> "key", key |-> k, width |-> 0, height |-> 0, text |-> <<>>]
WindowSizeMsg(w, h) ==
    [type |-> "resize", key |-> "", width |-> w, height |-> h, text |-> <<>>]
operationSuccessMsg(text) ==
    [type |-> "success", key |-> "", width |-> 0, height |-> 0, text |-> text]
operationErrorMsg(err) ==
    [type |-> "error", key |-> "", width |-> 0, height |-> 0, text |-> err]
loadingMsgOf(text) ==
    [type |-> "loading", key |-> "", width |-> 0, height |-> 0, text |-> text]

(* ---------------------------- Model ------------------------------------ *)
\* the Model value Update receives
M == [client |-> client, currentView |-> currentView, cursor |-> cursor,
      width |-> width, height |-> height, message |-> message,
      messageStyle |-> messageStyle, loading |-> loading,
      loadingMsg |-> loadingMsg, showingInput |-> showingInput,
      inputForm |-> inputForm]

NewModel(hasKey) ==
    [client |-> hasKey, currentView |-> mainMenuView, cursor |-> 0,
     width |-> 0, height |-> 0, message |-> <<>>,
     messageStyle |-> successStyle, loading |-> FALSE, loadingMsg |-> <<>>,
     showingInput |-> FALSE, inputForm |-> NoForm]

\* m.showingInput = false; m.inputForm keeps the form that was shown
Hide(m) == [m EXCEPT !.showingInput = FALSE]

\* m.currentView = v; m.cursor = 0; m.message = ""
EnterSubViewWrongView(m, v) ==
    [m |-> [m EXCEPT !.currentView = settingsView, !.cursor = 0, !.message = <<>>],
     cmd |-> NilCmd]

EnterSubView(m, v) ==
    [m |-> [m EXCEPT !.currentView = v, !.cursor = 0, !.message = <<>>],
     cmd |-> NilCmd]

\* if m.client == nil { message; return } and else the transition
RequireClientSkipped(m, v) == EnterSubView(m, v)

RequireClientOnlyForPayments(m, v) ==
    IF ~m.client /\ v = paymentView
    THEN [m |-> [m EXCEPT !.message = ApiKeyText, !.messageStyle = errorStyle],
          cmd |-> NilCmd]
    ELSE EnterSubView(m, v)

RequireClient(m, v) ==
    IF ~m.client
    THEN [m |-> [m EXCEPT !.message = ApiKeyText, !.messageStyle = errorStyle],
          cmd |-> NilCmd]
    ELSE EnterSubView(m, v)

\* show*Form: m.inputForm = newInputForm(...); m.showingInput = true
OpenFormLeavesMenu(m, sel) ==
    [m |-> [m EXCEPT !.inputForm = newInputForm(sel.title, sel.fields, sel.op),
                     !.showingInput = TRUE,
                     !.cursor = 0],
     cmd |-> NilCmd]

OpenFormSetsLoading(m, sel) ==
    [m |-> [m EXCEPT !.inputForm = newInputForm(sel.title, sel.fields, sel.op),
                     !.showingInput = TRUE,
                     !.loading = TRUE],
     cmd |-> NilCmd]

OpenForm(m, sel) ==
    [m |-> [m EXCEPT !.inputForm = newInputForm(sel.title, sel.fields, sel.op),
                     !.showingInput = TRUE],
     cmd |-> NilCmd]

\* return m.perform*(): the handler hands the Command back, the Model as it is
StartCommandSetsLoading(m, sel) ==
    [m |-> [m EXCEPT !.loading = TRUE], cmd |-> OpCmd(sel.op, <<>>)]

StartCommand(m, sel) == [m |-> m, cmd |-> OpCmd(sel.op, <<>>)]

\* the Back case of a selection handler
GoBackKeepsCursor(m) ==
    [m |-> [m EXCEPT !.currentView = mainMenuView], cmd |-> NilCmd]

GoBack(m) ==
    [m |-> [m EXCEPT !.currentView = mainMenuView, !.cursor = 0], cmd |-> NilCmd]

\* handleEnter; with the gc toolchain the calls in "return *m, m.handleX()"
\* run before *m is copied, so the returned Model carries the handler's writes
handleEnter(m) ==
    IF m.currentView = mainMenuView
    THEN CASE m.cursor = 0 -> RequireClient(m, paymentView)
           [] m.cursor = 1 -> RequireClient(m, poolView)
           [] m.cursor = 2 -> RequireClient(m, tokenView)
           [] m.cursor = 3 -> RequireClient(m, authorizationView)
           [] m.cursor = 4 -> RequireClient(m, merchantView)
           [] m.cursor = 5 -> RequireClient(m, webhookView)
           [] m.cursor = 6 -> RequireClient(m, shadowIDView)
           [] m.cursor = 7 -> EnterSubView(m, settingsView)
           [] m.cursor = 8 -> [m |-> m, cmd |-> QuitCmd]
           [] OTHER -> [m |-> m, cmd |-> NilCmd]
    ELSE LET sel == Selection(m.currentView, m.cursor)
         IN  CASE sel.kind = "form" -> OpenForm(m, sel)
               [] sel.kind = "cmd" -> StartCommand(m, sel)
               [] sel.kind = "msg" ->
                    [m |-> [m EXCEPT !.message = sel.text,
                                     !.messageStyle = errorStyle],
                     cmd |-> NilCmd]
               [] sel.kind = "back" -> GoBack(m)
               [] OTHER -> [m |-> m, cmd |-> NilCmd]

\* case tea.WindowSizeMsg
UpdateWindowSizeClearsMessage(m, msg) ==
    [m |-> [m EXCEPT !.width = msg.width, !.height = msg.height, !.message = <<>>],
     cmd |-> NilCmd]

UpdateWindowSizeClosesForm(m, msg) ==
    [m |-> [Hide(m) EXCEPT !.width = msg.width, !.height = msg.height],
     cmd |-> NilCmd]

UpdateWindowSize(m, msg) ==
    [m |-> [m EXCEPT !.width = msg.width, !.height = msg.height], cmd |-> NilCmd]

\* case operationSuccessMsg
UpdateSuccessFirstWins(m, msg) ==
    [m |-> [Hide(m) EXCEPT !.loading = FALSE,
                           !.message = IF m.message = <<>> THEN msg.text ELSE @,
                           !.messageStyle = successStyle],
     cmd |-> NilCmd]

UpdateSuccess(m, msg) ==
    [m |-> [Hide(m) EXCEPT !.loading = FALSE, !.message = msg.text,
                           !.messageStyle = successStyle],
     cmd |-> NilCmd]

\* case operationErrorMsg
UpdateErrorKeepsForm(m, msg) ==
    [m |-> [m EXCEPT !.loading = FALSE,
                     !.message = <<"Error: ">> \o msg.text,
                     !.messageStyle = errorStyle],
     cmd |-> NilCmd]

UpdateErrorToMainMenu(m, msg) ==
    [m |-> [Hide(m) EXCEPT !.loading = FALSE,
                           !.message = <<"Error: ">> \o msg.text,
                           !.messageStyle = errorStyle,
                           !.currentView = mainMenuView],
     cmd |-> NilCmd]

UpdateError(m, msg) ==
    [m |-> [Hide(m) EXCEPT !.loading = FALSE,
                           !.message = <<"Error: ">> \o msg.text,
                           !.messageStyle = errorStyle],
     cmd |-> NilCmd]

\* case loadingMsg
UpdateLoading(m, msg) ==
    [m |-> [m EXCEPT !.loading = TRUE, !.loadingMsg = msg.text], cmd |-> NilCmd]

\* case tea.KeyMsg, if m.showingInput
UpdateFormKeyEscLeavesView(m, key) ==
    IF key = "ctrl+c" THEN [m |-> m, cmd |-> QuitCmd]
    ELSE IF key = "esc"
    THEN [m |-> [Hide(m) EXCEPT !.message = <<>>, !.currentView = mainMenuView],
          cmd |-> NilCmd]
    ELSE LET r == inputFormUpdate(m.inputForm, key)
         IN  [m |-> [m EXCEPT !.inputForm = r.form], cmd |-> r.cmd]

UpdateFormKeyQuitToMainMenu(m, key) ==
    IF key = "ctrl+c"
    THEN [m |-> [m EXCEPT !.currentView = mainMenuView, !.message = <<>>],
          cmd |-> NilCmd]
    ELSE IF key = "esc"
    THEN [m |-> [Hide(m) EXCEPT !.message = <<>>], cmd |-> NilCmd]
    ELSE LET r == inputFormUpdate(m.inputForm, key)
         IN  [m |-> [m EXCEPT !.inputForm = r.form], cmd |-> r.cmd]

UpdateFormKeySetsLoading(m, key) ==
    IF key = "ctrl+c" THEN [m |-> m, cmd |-> QuitCmd]
    ELSE IF key = "esc"
    THEN [m |-> [Hide(m) EXCEPT !.message = <<>>], cmd |-> NilCmd]
    ELSE LET r == inputFormUpdate(m.inputForm, key)
         IN  [m |-> [m EXCEPT !.inputForm = r.form,
                              !.loading = (r.cmd.kind = "op")],
              cmd |-> r.cmd]

UpdateFormKeyEscStepsBack(m, key) ==
    IF key = "ctrl+c" THEN [m |-> m, cmd |-> QuitCmd]
    ELSE IF key = "esc" /\ m.inputForm.focusIndex = 0
    THEN [m |-> [Hide(m) EXCEPT !.message = <<>>], cmd |-> NilCmd]
    ELSE IF key = "esc"
    THEN [m |-> [m EXCEPT !.inputForm = Refocus(@, @.focusIndex - 1),
                          !.message = <<>>],
          cmd |-> NilCmd]
    ELSE LET r == inputFormUpdate(m.inputForm, key)
         IN  [m |-> [m EXCEPT !.inputForm = r.form], cmd |-> r.cmd]

UpdateFormKey(m, key) ==
    IF key = "ctrl+c" THEN [m |-> m, cmd |-> QuitCmd]
    ELSE IF key = "esc"
    THEN [m |-> [Hide(m) EXCEPT !.message = <<>>], cmd |-> NilCmd]
    ELSE LET r == inputFormUpdate(m.inputForm, key)
         IN  [m |-> [m EXCEPT !.inputForm = r.form], cmd |-> r.cmd]

\* case "ctrl+c", "q"
QuitKeyAnywhere(m) == [m |-> m, cmd |-> QuitCmd]

QuitKeyResetsCursor(m) ==
    IF m.currentView = mainMenuView
    THEN [m |-> m, cmd |-> QuitCmd]
    ELSE [m |-> [m EXCEPT !.currentView = mainMenuView, !.message = <<>>,
                          !.cursor = 0],
          cmd |-> NilCmd]

QuitKey(m) ==
    IF m.currentView = mainMenuView
    THEN [m |-> m, cmd |-> QuitCmd]
    ELSE [m |-> [m EXCEPT !.currentView = mainMenuView, !.message = <<>>],
          cmd |-> NilCmd]

\* case "esc"
EscKeyKeepsMessage(m) ==
    IF m.currentView # mainMenuView
    THEN [m |-> [m EXCEPT !.currentView = mainMenuView], cmd |-> NilCmd]
    ELSE [m |-> m, cmd |-> NilCmd]

EscKey(m) ==
    IF m.currentView # mainMenuView
    THEN [m |-> [m EXCEPT !.currentView = mainMenuView, !.message = <<>>],
          cmd |-> NilCmd]
    ELSE [m |-> m, cmd |-> NilCmd]

\* case tea.KeyMsg, no form shown
UpdateMenuKey(m, key) ==
    CASE key \in {"ctrl+c", "q"} -> QuitKey(m)
      [] key = "esc" -> EscKey(m)
      [] key \in {"up", "k"} ->
            [m |-> IF m.cursor > 0 THEN [m EXCEPT !.cursor = m.cursor - 1] ELSE m,
             cmd |-> NilCmd]
      [] key \in {"down", "j"} ->
            [m |-> IF m.cursor < getMaxCursor(m.currentView)
                   THEN [m EXCEPT !.cursor = m.cursor + 1] ELSE m,
             cmd |-> NilCmd]
      [] key = "enter" -> handleEnter(m)
      [] OTHER -> [m |-> m, cmd |-> NilCmd]

\* Model.Update
Update(m, msg) ==
    CASE msg.type = "resize" -> UpdateWindowSize(m, msg)
      [] msg.type = "success" -> UpdateSuccess(m, msg)
      [] msg.type = "error" -> UpdateError(m, msg)
      [] msg.type = "loading" -> UpdateLoading(m, msg)
      [] msg.type = "key" ->
            IF m.showingInput THEN UpdateFormKey(m, msg.key)
            ELSE UpdateMenuKey(m, msg.key)
      [] OTHER -> [m |-> m, cmd |-> NilCmd]

(* ---------------------------- rendering -------------------------------- *)
\* what a rendered screen shows: which screen; the menu of which view, with
\* the cursor mark on which item; the connection or key status line; the
\* message box with its style; the loading text; the form's title and inputs
Screen(kind, view, mark, status, box, boxStyle, text, form) ==
    [screen |-> kind, view |-> view, cursor |-> mark, status |-> status,
     messageBox |-> box, messageBoxStyle |-> boxStyle, text |-> text,
     form |-> form]

\* no menu, no item marked, no status line, no message box, no form
NoView == 0 - 1
NoMark == 0 - 1
NoStatus == ""
NoBox == <<>>
NoStyle == ""
NoInputs == [title |-> "", inputs |-> <<>>]

\* the mark is on item i when m.cursor == i: no item carries it when the
\* cursor is beyond the menu
Mark(m, items) == IF m.cursor \in 0..(items - 1) THEN m.cursor ELSE NoMark

\* renderMainMenu: connection status, the menu of 9 items, and the message
\* box if m.message != ""
renderMainMenu(m) ==
    Screen("menu", mainMenuView, Mark(m, ItemCount(mainMenuView)),
           IF m.client THEN "Connected" ELSE "Not Connected (Set API Key)",
           m.message, IF m.message # <<>> THEN m.messageStyle ELSE NoStyle,
           <<>>, NoInputs)

\* renderPaymentView .. renderShadowIDView: title, menu and help only
renderSubView(m) ==
    Screen("menu", m.currentView, Mark(m, ItemCount(m.currentView)), NoStatus,
           NoBox, NoStyle, <<>>, NoInputs)

\* renderSettingsView: key status and instructions; apiKey is "" exactly
\* when NewModel made no client
renderSettingsView(m) ==
    Screen("settings", NoView, NoMark,
           IF m.client THEN "API Key: " ELSE "API Key not set",
           NoBox, NoStyle, <<>>, NoInputs)

\* renderLoading: title, spinner frame and m.loadingMsg
renderLoading(m) ==
    Screen("loading", NoView, NoMark, NoStatus, NoBox, NoStyle, m.loadingMsg,
           NoInputs)

\* inputForm.View: title, inputs and help
inputFormView(f) ==
    Screen("form", NoView, NoMark, NoStatus, NoBox, NoStyle, <<>>,
           [title |-> f.title, inputs |-> f.inputs])

\* Model.View
View(m) ==
    IF m.width = 0
    THEN Screen("starting", NoView, NoMark, NoStatus, NoBox, NoStyle, <<>>, NoInputs)
    ELSE IF m.loading THEN renderLoading(m)
    ELSE IF m.showingInput THEN inputFormView(m.inputForm)
    ELSE IF m.currentView = mainMenuView THEN renderMainMenu(m)
    ELSE IF m.currentView = settingsView THEN renderSettingsView(m)
    ELSE renderSubView(m)

(* ---------------------------- runtime ---------------------------------- *)
NoMsg == [type |-> "none", text |-> <<>>]
Running(op, args) == [op |-> op, args |-> args, status |-> "running", msg |-> NoMsg]

RemoveAt(s, i) == [j \in 1..(Len(s) - 1) |-> IF j < i THEN s[j] ELSE s[j + 1]]

\* the event loop stores the Model Update returned and starts the Cmd
\* the event loop is reading messages: tea.Quit, once returned by Update, is
\* a Cmd like any other, and until the QuitMsg it sends is read the loop goes
\* on handing the messages that arrive before it to Update
Live == exit = "running" \/ (exit = "quitting" /\ afterQuit < MaxAfterQuit)

Step(msg, idx, queue) ==
    LET r == Update(M, msg)
    IN  /\ client' = r.m.client
        /\ currentView' = r.m.currentView
        /\ cursor' = r.m.cursor
        /\ width' = r.m.width
        /\ height' = r.m.height
        /\ message' = r.m.message
        /\ messageStyle' = r.m.messageStyle
        /\ loading' = r.m.loading
        /\ loadingMsg' = r.m.loadingMsg
        /\ showingInput' = r.m.showingInput
        /\ inputForm' = r.m.inputForm
        /\ pending' = IF r.cmd.kind = "op"
                      THEN Append(queue, Running(r.cmd.op, r.cmd.args))
                      ELSE queue
        /\ exit' = IF r.cmd.kind = "quit" THEN "quitting" ELSE exit
        /\ last' = [kind |-> msg.type, idx |-> idx, form |-> showingInput,
                    busy |-> loading, from |-> currentView]
        /\ work' = work
        /\ afterQuit' = IF exit = "quitting" THEN afterQuit + 1 ELSE 0

\* nothing recorded: the runs of Spec and SpecRace
NoEntered == [text |-> <<>>, enters |-> 0 - 1, forward |-> 0 - 1]

Init ==
    /\ \E hasKey \in BOOLEAN :
          LET m == NewModel(hasKey)
          IN  /\ client = m.client
              /\ currentView = m.currentView
              /\ cursor = m.cursor
              /\ width = m.width
              /\ height = m.height
              /\ message = m.message
              /\ messageStyle = m.messageStyle
              /\ loading = m.loading
              /\ loadingMsg = m.loadingMsg
              /\ showingInput = m.showingInput
              /\ inputForm = m.inputForm
    /\ pending = <<>>
    /\ exit = "running"
    /\ work \in WorkItems
    /\ last = [kind |-> "init", idx |-> 0, form |-> FALSE, busy |-> FALSE,
              from |-> mainMenuView]
    /\ afterQuit = 0
    /\ entered = NoEntered

\* the keys the operator of this run presses: confirm is pressed on the
\* work item, on Back / Exit and on items without a case
Offered(key) ==
    (key = "enter" /\ ~showingInput) =>
        IF currentView = mainMenuView
        THEN cursor + 1 = work.view \/ cursor = 8
        ELSE \/ Selection(currentView, cursor).kind \in {"back", "none"}
             \/ (currentView = work.view /\ cursor = work.item)

\* a key event is delivered to Update
KeyInputB(key, maxPending, maxTyped) ==
    /\ Live
    /\ Offered(key)
    /\ (showingInput /\ key \in Chars) => Typed(inputForm) < maxTyped
    /\ Update(M, KeyMsg(key)).cmd.kind = "op" => Len(pending) < maxPending
    /\ Step(KeyMsg(key), 0, pending)
    /\ entered' = entered

\* the position of the field an operation parses as a number (0: none)
NumericArg(op) ==
    CASE op \in {"performPaymentDeposit", "performPaymentWithdraw",
                 "performPreparePayment", "performPoolDeposit",
                 "performPoolWithdraw", "performViewLogs"} -> 2
      [] op \in {"performAuthorizePayment", "performAddToken"} -> 3
      [] op = "performWithdrawEarnings" -> 1
      [] op = "performAuthorizeSpending" -> 5
      [] OTHER -> 0

\* the field the operator of Spec types into: the one the operation parses
\* as a number, and the last one of a form without such a field
TypedField(f) ==
    IF NumericArg(f.submitFunc) > 0 THEN NumericArg(f.submitFunc) - 1
    ELSE Len(f.inputs) - 1

KeyInput(key) ==
    /\ (showingInput /\ key \in Chars) => inputForm.focusIndex = TypedField(inputForm)
    /\ KeyInputB(key, MaxPending, MaxTyped)

\* key events of a run in which the fields of a form are left empty
RaceKeyInput(key) ==
    /\ showingInput => key \notin Chars
    /\ KeyInputB(key, MaxRacePending, MaxTyped)

\* key events of a run with one command in flight and nothing typed
FairKeyInput(key) ==
    /\ showingInput => key \notin Chars
    /\ KeyInputB(key, MaxPending, MaxTyped)

\* the terminal reports its size
Resize(w, h) ==
    /\ Live
    /\ Step(WindowSizeMsg(w, h), 0, pending)
    /\ entered' = entered

\* a command's goroutine runs the closure against the backend answer b
RunCmdWritesModel(i, b) ==
    /\ Live
    /\ pending[i].status = "running"
    /\ LET res == CmdBody(pending[i].op, pending[i].args, b)
       IN  /\ pending' = [pending EXCEPT ![i] =
                  [op |-> pending[i].op, args |-> <<>>, status |-> "returned",
                   msg |-> [type |-> IF res.type = "panic" THEN "error" ELSE res.type,
                            text |-> res.text]]]
           /\ message' = res.text
    /\ UNCHANGED <<client, currentView, cursor, width, height, messageStyle,
                   loading, loadingMsg, showingInput, inputForm, exit, work, last,
                   afterQuit, entered>>

RunCmd(i, b) ==
    /\ Live
    /\ pending[i].status = "running"
    /\ LET res == CmdBody(pending[i].op, pending[i].args, b)
       IN  IF res.type = "panic"
           THEN /\ pending' = [pending EXCEPT ![i].status = "panicked"]
                /\ exit' = "panic"
           ELSE /\ pending' = [pending EXCEPT ![i] =
                      [op |-> pending[i].op, args |-> <<>>, status |-> "returned",
                       msg |-> [type |-> res.type, text |-> res.text]]]
                /\ exit' = exit
    /\ UNCHANGED <<modelVars, work, last, afterQuit, entered>>

\* the message a command returned is delivered to Update
Deliver(i) ==
    /\ Live
    /\ pending[i].status = "returned"
    /\ Step(IF pending[i].msg.type = "success"
            THEN operationSuccessMsg(pending[i].msg.text)
            ELSE operationErrorMsg(pending[i].msg.text),
            i, RemoveAt(pending, i))
    /\ entered' = entered

\* the event loop reads the QuitMsg and ends
ReadQuit ==
    /\ exit = "quitting"
    /\ exit' = "quit"
    /\ UNCHANGED <<modelVars, pending, work, last, afterQuit, entered>>

Next ==
    \/ \E key \in Keys : KeyInput(key)
    \/ \E w \in Widths, h \in Heights : Resize(w, h)
    \/ \E i \in 1..Len(pending), b \in Backend : RunCmd(i, b)
    \/ \E i \in 1..Len(pending) : Deliver(i)
    \/ ReadQuit

Spec == Init /\ [][Next]_vars

\* the same program with two commands in flight and nothing typed
NextRace ==
    \/ \E key \in Keys : RaceKeyInput(key)
    \/ \E w \in Widths, h \in Heights : Resize(w, h)
    \/ \E i \in 1..Len(pending), b \in Backend : RunCmd(i, b)
    \/ \E i \in 1..Len(pending) : Deliver(i)
    \/ ReadQuit

SpecRace == Init /\ [][NextRace]_vars

\* the scheduling of the program: the goroutine of a dispatched command runs
\* its body, and the event loop reads every message sent to it, a command's
\* result and the QuitMsg alike; the operator owes no key and the terminal no
\* size report
NextFair ==
    \/ \E key \in Keys : FairKeyInput(key)
    \/ \E w \in Widths, h \in Heights : Resize(w, h)
    \/ \E i \in 1..Len(pending), b \in Backend : RunCmd(i, b)
    \/ \E i \in 1..Len(pending) : Deliver(i)
    \/ ReadQuit

Fairness ==
    /\ WF_vars(\E i \in 1..Len(pending), b \in Backend : RunCmd(i, b))
    /\ WF_vars(\E i \in 1..Len(pending) : Deliver(i))
    /\ WF_vars(ReadQuit)

SpecFair == Init /\ [][NextFair]_vars /\ Fairness

(* ---------------------------- the form alone --------------------------- *)
\* the menu items that open a form
FormItems == {w \in WorkItems : Selection(w.view, w.item).kind = "form"}

\* the state right after confirm on a form item opened its form
InitForm ==
    \E w \in FormItems :
        LET m == Update([NewModel(TRUE) EXCEPT !.currentView = w.view,
                                               !.cursor = w.item],
                        KeyMsg("enter")).m
        IN  /\ client = m.client
            /\ currentView = m.currentView
            /\ cursor = m.cursor
            /\ width = m.width
            /\ height = m.height
            /\ message = m.message
            /\ messageStyle = m.messageStyle
            /\ loading = m.loading
            /\ loadingMsg = m.loadingMsg
            /\ showingInput = m.showingInput
            /\ inputForm = m.inputForm
            /\ pending = <<>>
            /\ exit = "running"
            /\ work = w
            /\ last = [kind |-> "key", idx |-> 0, form |-> FALSE, busy |-> FALSE,
                       from |-> w.view]
            /\ afterQuit = 0
            /\ entered = [text |-> [i \in 1..Len(m.inputForm.inputs) |-> <<>>],
                          enters |-> 0, forward |-> 0]

\* a key event is delivered to Update while the form is shown
FormKey(key) ==
    /\ Live
    /\ showingInput
    /\ Len(pending) < MaxSubmits
    /\ key \in Chars => Typed(inputForm) < MaxFormTyped
    /\ Step(KeyMsg(key), 0, pending)
    /\ entered' =
          [text |-> IF key \in Chars
                    THEN [entered.text EXCEPT ![inputForm.focusIndex + 1] =
                                                  Append(@, key)]
                    ELSE entered.text,
           enters |-> IF key = "enter" /\ entered.enters >= 0
                      THEN entered.enters + 1 ELSE 0 - 1,
           forward |-> IF key \in {"tab", "down"} /\ entered.forward >= 0
                          /\ entered.forward < MaxForward
                       THEN entered.forward + 1 ELSE 0 - 1]

NextForm ==
    \/ \E key \in Keys : FormKey(key)
    \/ ReadQuit

SpecForm == InitForm /\ [][NextForm]_vars

TypeOK ==
    /\ client \in BOOLEAN
    /\ currentView \in Views
    /\ cursor \in 0..8
    /\ showingInput \in BOOLEAN
    /\ loading \in BOOLEAN
    /\ exit \in {"running", "quitting", "quit", "panic"}
    /\ afterQuit \in 0..MaxAfterQuit
    /\ inputForm.focusIndex \in 0..5

(* ---------------------------- properties -------------------------------- *)
\* a step in which the event loop hands the result of command i to Update
DeliveryStep(i) ==
    /\ pending[i].status = "returned"
    /\ Len(pending') = Len(pending) - 1
    /\ last'.idx = i

\* the status line a result asks for
StatusText(msg) ==
    IF msg.type = "success" THEN msg.text ELSE <<"Error: ">> \o msg.text
StatusStyle(msg) == IF msg.type = "success" THEN successStyle ELSE errorStyle

Contains(text, token) == \E k \in 1..Len(text) : text[k] = token

\* C1: in every view the cursor stays within 0 .. itemCount - 1, with the
\* item counts MainMenu 9, payment 7, pool 5, token 5, authorization 4,
\* merchant 5, webhook 7, identity 6
C1_CursorWithinItems ==
    currentView # settingsView =>
        (0 <= cursor /\ cursor <= ItemCount(currentView) - 1)

\* C2 as stated: a key event produces the termination signal (tea.Quit) only
\* while the view is MainMenu
C2_QuitOnlyInMainMenu ==
    \A key \in Keys :
        Update(M, KeyMsg(key)).cmd = QuitCmd => currentView = mainMenuView

\* C2, amended: a key produces the termination signal only in MainMenu with
\* no form active (Exit item or quit key) or, in any view, as ctrl+c while a
\* form is active
C2_QuitOnlyInMainMenuOrForm ==
    \A key \in Keys :
        Update(M, KeyMsg(key)).cmd = QuitCmd =>
            \/ showingInput /\ key = "ctrl+c"
            \/ /\ ~showingInput
               /\ currentView = mainMenuView
               /\ key \in {"q", "ctrl+c"} \/ (key = "enter" /\ cursor = 8)

C2_QuitInFormReached ==
    /\ exit = "quitting"
    /\ afterQuit = 0
    /\ last.kind = "key"
    /\ last.form
    /\ showingInput
    /\ currentView # mainMenuView

\* C3: the form-active flag and the in-flight (loading) flag are never both
\* set, in whatever order keys and the results of Commands are delivered
C3_FormAndLoadingExclusive == ~(showingInput /\ loading)

C3_FormActiveResultWaitingReached ==
    /\ showingInput
    /\ ~loading
    /\ last.kind = "key"
    /\ last.form
    /\ Len(pending) = 1
    /\ pending[1].status = "returned"
    /\ exit = "running"

\* C4: delivering a Success or Error result, whatever the state, closes the
\* form, clears the in-flight flag and sets the status message to the result's
\* text with the matching severity; an Error status contains the failure reason
C4_ResultClearsFormAndLoading ==
    [][\A i \in 1..Len(pending) :
          DeliveryStep(i) =>
              /\ ~showingInput'
              /\ ~loading'
              /\ messageStyle' = StatusStyle(pending[i].msg)
              /\ pending[i].msg.type = "success" => message' = pending[i].msg.text
              /\ pending[i].msg.type = "error" =>
                    \A j \in 1..Len(pending[i].msg.text) :
                        Contains(message', pending[i].msg.text[j])]_vars

C4_ErrorClosedFormReached ==
    /\ last.kind = "error"
    /\ last.form
    /\ ~showingInput
    /\ ~loading
    /\ messageStyle = errorStyle
    /\ Contains(message, "insufficient balance")

\* C5: delivering a Success or Error result never changes the view or the
\* cursor, starts no Command and does not terminate the program
C5_ResultKeepsViewAndCursor ==
    [][\A i \in 1..Len(pending) :
          DeliveryStep(i) =>
              /\ currentView' = currentView
              /\ cursor' = cursor
              /\ exit' = exit
              /\ pending' = RemoveAt(pending, i)
              /\ Update(M, operationSuccessMsg(pending[i].msg.text)).cmd = NilCmd
              /\ Update(M, operationErrorMsg(pending[i].msg.text)).cmd = NilCmd]_vars

C5_ResultInSubViewReached ==
    /\ last.kind \in {"success", "error"}
    /\ currentView = tokenView
    /\ cursor = 3
    /\ exit = "running"
    /\ pending = <<>>

\* C6: every dispatched Command that ends has produced its result message
C6_EveryCommandYieldsMessage ==
    \A i \in 1..Len(pending) :
        pending[i].status # "running" => pending[i].msg.type \in {"success", "error"}

\* C7: a Command body never writes Model state; the Model changes only in a
\* step of Update
C7_BodiesLeaveModelAlone ==
    [][(/\ Len(pending') = Len(pending)
        /\ \E i \in 1..Len(pending) :
              pending[i].status = "running" /\ pending'[i].status # "running")
          => UNCHANGED modelVars]_vars

C7_BodyRanBesideFormReached ==
    /\ showingInput
    /\ Typed(inputForm) > 0
    /\ \E i \in 1..Len(pending) : pending[i].status = "returned"

\* C8: with two Commands in flight either result may be delivered first, and
\* each delivery replaces the status, so the status is the result delivered last
C8_LastDeliveredWins ==
    [][\A i \in 1..Len(pending) :
          (/\ Len(pending) = 2
           /\ \A j \in 1..2 : pending[j].status = "returned"
           /\ DeliveryStep(i)) =>
              /\ message' = StatusText(pending[i].msg)
              /\ messageStyle' = StatusStyle(pending[i].msg)
              /\ pending' = <<pending[3 - i]>>]_vars

C8_SecondDeliveredFirstReached ==
    /\ last.kind \in {"success", "error"}
    /\ last.idx = 2
    /\ Len(pending) = 1
    /\ pending[1].status = "returned"
    /\ message # StatusText(pending[1].msg)

\* C9: without a backend client, confirm on a backend-dependent MainMenu item
\* sets an Error status, stays on MainMenu with the cursor unchanged and starts
\* no Command; Settings and Exit still work
C9_NoClientStaysOnMainMenu ==
    (~client /\ ~showingInput /\ currentView = mainMenuView) =>
        LET r == Update(M, KeyMsg("enter"))
        IN  /\ cursor \in 0..6 =>
                /\ r.m.message = <<"Please set API key in Settings first">>
                /\ r.m.messageStyle = errorStyle
                /\ r.m.currentView = mainMenuView
                /\ r.m.cursor = cursor
                /\ r.cmd = NilCmd
            /\ cursor = 7 => (r.m.currentView = settingsView /\ r.cmd = NilCmd)
            /\ cursor = 8 => r.cmd = QuitCmd

C9_NoClientErrorReached ==
    /\ ~client
    /\ last.kind = "key"
    /\ currentView = mainMenuView
    /\ cursor = 6
    /\ message = <<"Please set API key in Settings first">>
    /\ messageStyle = errorStyle
    /\ pending = <<>>

\* C10: with a backend client, confirm on MainMenu item i (0..7) enters the
\* i-th of Payments, Pool, Token, Authorization, Merchant, Webhook, Identity,
\* Settings with cursor 0 and the status cleared; three downs and confirm from
\* the start enter Authorization
MainMenuTargets ==
    <<paymentView, poolView, tokenView, authorizationView, merchantView,
      webhookView, shadowIDView, settingsView>>

ThreeDownsAndConfirm ==
    LET d1 == Update(NewModel(TRUE), KeyMsg("down")).m
        d2 == Update(d1, KeyMsg("down")).m
        d3 == Update(d2, KeyMsg("down")).m
    IN  Update(d3, KeyMsg("enter")).m

C10_ConfirmEntersSubView ==
    /\ (client /\ ~showingInput /\ currentView = mainMenuView /\ cursor \in 0..7) =>
          LET r == Update(M, KeyMsg("enter"))
          IN  /\ r.m.currentView = MainMenuTargets[cursor + 1]
              /\ r.m.cursor = 0
              /\ r.m.message = <<>>
              /\ r.cmd = NilCmd
    /\ ThreeDownsAndConfirm.currentView = authorizationView
    /\ ThreeDownsAndConfirm.cursor = 0

C10_AuthorizationEnteredReached ==
    /\ client
    /\ last.kind = "key"
    /\ currentView = authorizationView
    /\ cursor = 0
    /\ message = <<>>
    /\ ~showingInput

\* C11: every change of the current view leaves the cursor at 0, for
\* MainMenu to sub-view and for sub-view to MainMenu by Back, Cancel or Quit
C11_ViewChangeResetsCursor ==
    [][currentView' # currentView => cursor' = 0]_vars

\* C12: in any sub-view, confirm with the cursor on the last (Back) item goes
\* to MainMenu with cursor 0 whatever the state before, opens no form and
\* creates no Command
C12_BackReturnsToMainMenu ==
    \A v \in BackendViews :
        LET m == [M EXCEPT !.currentView = v, !.cursor = ItemCount(v) - 1,
                           !.showingInput = FALSE]
            r == Update(m, KeyMsg("enter"))
        IN  /\ r.m.currentView = mainMenuView
            /\ r.m.cursor = 0
            /\ ~r.m.showingInput
            /\ r.m.inputForm = m.inputForm
            /\ r.cmd = NilCmd

C12_BackAfterResultReached ==
    /\ last.kind = "key"
    /\ last.from = shadowIDView
    /\ currentView = mainMenuView
    /\ cursor = 0
    /\ message # <<>>
    /\ ~showingInput
    /\ pending = <<>>

\* C13: the step in which the form reports submit closes the form and returns
\* the Command of the submit callback on the collected values, so no form is
\* active while the submitted Command is pending
C13_SubmitClosesForm ==
    [][(showingInput /\ Len(pending') = Len(pending) + 1) =>
          /\ ~showingInput'
          /\ pending'[Len(pending')].op = inputForm.submitFunc
          /\ pending'[Len(pending')].args = FormValues(inputForm)]_vars

\* C14 as stated: a status message that is set changes only in a step that
\* delivers a Success or Error result or changes the current view
C14_MessageChangesOnlyOnResultOrViewChange ==
    [][(message # <<>> /\ message' # message) =>
          \/ \E i \in 1..Len(pending) : DeliveryStep(i)
          \/ currentView' # currentView]_vars

\* C14, amended: resize, loadingMsg, navigation keys and the keys an open form
\* handles leave the status message alone; a key changes it only as esc in an
\* open form (cleared), confirm on MainMenu (cleared on entering a sub-view, or
\* the missing-client error), confirm on Settle Payment (its error text), and
\* esc or quit in a sub-view (cleared); Back keeps it
C14_MessageChangesOnlyByListedEvents ==
    /\ \A w \in Widths, h \in Heights :
          Update(M, WindowSizeMsg(w, h)).m.message = message
    /\ \A text \in LoadingTexts : Update(M, loadingMsgOf(text)).m.message = message
    /\ \A key \in Keys :
          LET r == Update(M, KeyMsg(key)).m
          IN  r.message # message =>
                \/ showingInput /\ key = "esc" /\ r.message = <<>>
                \/ /\ ~showingInput /\ key = "enter" /\ currentView = mainMenuView
                   /\ \/ r.currentView # mainMenuView /\ r.message = <<>>
                      \/ ~client /\ r.message = <<"Please set API key in Settings first">>
                \/ /\ ~showingInput /\ key = "enter"
                   /\ currentView = paymentView /\ cursor = 5
                   /\ r.message =
                        <<"Settle is complex - requires x402 payload. Use API directly.">>
                \/ /\ ~showingInput /\ key \in {"esc", "q", "ctrl+c"}
                   /\ currentView # mainMenuView
                   /\ r.currentView = mainMenuView /\ r.message = <<>>

C14_MessageKeptWhileTypingReached ==
    /\ last.kind = "key"
    /\ last.form
    /\ showingInput
    /\ Typed(inputForm) > 0
    /\ inputForm.focusIndex = 1
    /\ message # <<>>
    /\ messageStyle = successStyle

\* C15: with no form active, esc in a sub-view goes to MainMenu and clears the
\* status message; in MainMenu it changes nothing and yields neither a Command
\* nor termination
C15_CancelKey ==
    ~showingInput =>
        LET r == Update(M, KeyMsg("esc"))
        IN  /\ r.cmd = NilCmd
            /\ currentView # mainMenuView =>
                  (r.m.currentView = mainMenuView /\ r.m.message = <<>>)
            /\ currentView = mainMenuView =>
                  /\ r.m.currentView = mainMenuView
                  /\ r.m.cursor = cursor
                  /\ r.m.message = message
                  /\ r.m.messageStyle = messageStyle

C15_CancelledToMainMenuReached ==
    /\ last.kind = "key"
    /\ last.from = merchantView
    /\ ~last.form
    /\ currentView = mainMenuView
    /\ cursor = 2
    /\ message = <<>>
    /\ exit = "running"

\* C16: with no form active, the quit key in MainMenu signals termination; in
\* a sub-view it does not, and leaves exactly the state esc leaves (MainMenu,
\* status message cleared)
C16_QuitKeyLikeCancel ==
    ~showingInput =>
        \A key \in {"q", "ctrl+c"} :
            LET r == Update(M, KeyMsg(key))
            IN  /\ currentView = mainMenuView => (r.cmd = QuitCmd /\ r.m = M)
                /\ currentView # mainMenuView =>
                      /\ r.cmd = NilCmd
                      /\ r.m = Update(M, KeyMsg("esc")).m
                      /\ r.m.currentView = mainMenuView
                      /\ r.m.message = <<>>

C16_QuitKeyOnMainMenuReached ==
    /\ exit = "quit"
    /\ last.kind = "key"
    /\ last.from = mainMenuView
    /\ currentView = mainMenuView
    /\ ~showingInput
    /\ cursor = 3

\* C17 as stated: confirm in a sub-view opens a form for every item but the
\* last (form active, view and cursor unchanged) and goes to MainMenu for the
\* last, the Back item
C17_ConfirmOpensFormOrGoesBack ==
    (~showingInput /\ currentView \in BackendViews
        /\ cursor <= ItemCount(currentView) - 1) =>
        LET r == Update(M, KeyMsg("enter"))
        IN  IF cursor = ItemCount(currentView) - 1
            THEN r.m.currentView = mainMenuView
            ELSE /\ r.m.showingInput
                 /\ r.m.currentView = currentView
                 /\ r.m.cursor = cursor

\* the items whose handler case returns a Command without a form
DirectItems ==
    {<<poolView, 3>>, <<tokenView, 0>>, <<merchantView, 0>>, <<webhookView, 1>>,
     <<webhookView, 4>>, <<shadowIDView, 3>>}

\* C17, amended: confirm in a sub-view does one of five things by item: it
\* returns a Command directly (Model unchanged), sets the Settle Payment error
\* text, goes back to MainMenu with cursor 0 (Back item), opens a new empty form
\* focused on field 0 (view and cursor unchanged), or, with the cursor on no
\* case of the handler, does nothing
C17_ConfirmByItem ==
    (~showingInput /\ currentView \in SubViews) =>
        LET r == Update(M, KeyMsg("enter"))
            at == <<currentView, cursor>>
        IN  CASE at \in DirectItems ->
                    r.m = M /\ r.cmd.kind = "op" /\ r.cmd.args = <<>>
              [] at = <<paymentView, 5>> ->
                    /\ r.m = [M EXCEPT !.message =
                          <<"Settle is complex - requires x402 payload. Use API directly.">>,
                                       !.messageStyle = errorStyle]
                    /\ r.cmd = NilCmd
              [] currentView \in BackendViews /\ cursor = ItemCount(currentView) - 1 ->
                    /\ r.m = [M EXCEPT !.currentView = mainMenuView, !.cursor = 0]
                    /\ r.cmd = NilCmd
              [] currentView \in BackendViews /\ cursor < ItemCount(currentView) - 1 ->
                    /\ r.m.showingInput
                    /\ r.m.currentView = currentView
                    /\ r.m.cursor = cursor
                    /\ r.m.message = message
                    /\ Len(r.m.inputForm.inputs) >= 1
                    /\ r.m.inputForm.focusIndex = 0
                    /\ Typed(r.m.inputForm) = 0
                    /\ r.cmd = NilCmd
              [] OTHER -> r.m = M /\ r.cmd = NilCmd

C17_DirectCommandReached ==
    /\ last.kind = "key"
    /\ ~last.form
    /\ ~showingInput
    /\ currentView = shadowIDView
    /\ cursor = 3
    /\ Len(pending) = 1
    /\ pending[1].op = "performGetTreeRoot"
    /\ pending[1].status = "running"

\* the form's declared fields, from the handler that opened it
DeclaredFields == Selection(work.view, work.item).fields

\* a step in which the open form is submitted
SubmitStep == showingInput /\ Len(pending') = Len(pending) + 1

\* the 2-field scenario: tab, type "5", confirm
TabFiveConfirm ==
    LET f0 == newInputForm("Check", <<"Wallet", "Amount">>, "submit")
        f1 == inputFormUpdate(f0, "tab").form
        f2 == inputFormUpdate(f1, "5").form
    IN  inputFormUpdate(f2, "enter").cmd

\* C18: confirm on the last field of an N-field form yields exactly N values
\* in declaration order, value i being the text entered while field i had the
\* focus; tab, "5", confirm on a 2-field form submits <<"", "5">>
C18_SubmitYieldsEnteredValues ==
    /\ TabFiveConfirm.kind = "op"
    /\ TabFiveConfirm.args = << <<>>, <<"5">> >>
    /\ [][SubmitStep =>
            LET args == pending'[Len(pending')].args
            IN  /\ Len(args) = Len(DeclaredFields)
                /\ Len(args) >= 1
                /\ args = entered.text
                /\ \A i \in 1..Len(args) :
                      inputForm.inputs[i].Placeholder = DeclaredFields[i]]_vars

C18_EmptyAndFiveSubmittedReached ==
    /\ Len(pending) = 1
    /\ pending[1].args = << <<>>, <<"5">> >>
    /\ entered.text = << <<>>, <<"5">> >>
    /\ last.kind = "key"
    /\ last.form

\* C19: from a new N-field form, confirm presses with no other input submit on
\* exactly the N-th press; each of the first N - 1 only moves the focus to the
\* next field
C19_SubmitOnNthConfirm ==
    [][(entered.enters >= 0 /\ entered'.enters = entered.enters + 1) =>
          LET n == Len(inputForm.inputs)
          IN  /\ entered'.enters < n =>
                    /\ pending' = pending
                    /\ inputForm'.focusIndex = inputForm.focusIndex + 1
                    /\ inputForm'.focusIndex = entered'.enters
                    /\ showingInput'
              /\ entered'.enters = n => SubmitStep]_vars

C19_SixthConfirmSubmitsReached ==
    /\ entered.enters = 6
    /\ Len(inputForm.inputs) = 6
    /\ Len(pending) = 1
    /\ pending[1].op = "performAuthorizeSpending"

\* C20: tab / down set focusIndex to (focusIndex + 1) mod N and shift+tab / up
\* to (focusIndex - 1 + N) mod N, so K forward presses from a new form leave
\* focusIndex = K mod N and a backward press undoes a forward press
C20_FocusCyclesModN ==
    showingInput =>
        LET n == Len(inputForm.inputs)
            after(f, key) == inputFormUpdate(f, key).form
        IN  /\ \A key \in {"tab", "down"} :
                  after(inputForm, key).focusIndex = (inputForm.focusIndex + 1) % n
            /\ \A key \in {"shift+tab", "up"} :
                  after(inputForm, key).focusIndex = (inputForm.focusIndex - 1 + n) % n
            /\ \A fk \in {"tab", "down"}, bk \in {"shift+tab", "up"} :
                  after(after(inputForm, fk), bk) = inputForm
            /\ entered.forward >= 0 => inputForm.focusIndex = entered.forward % n

C20_SevenForwardInThreeFieldsReached ==
    /\ showingInput
    /\ entered.forward = 7
    /\ Len(inputForm.inputs) = 3
    /\ inputForm.focusIndex = 1

\* C21: whenever a form is active, 0 <= focusIndex < N and exactly one field
\* is focused, the one at focusIndex, after any mix of focus, confirm and
\* character keys
C21_OneFocusedFieldAtFocusIndex ==
    showingInput =>
        LET n == Len(inputForm.inputs)
        IN  /\ n >= 1
            /\ 0 <= inputForm.focusIndex
            /\ inputForm.focusIndex < n
            /\ \A i \in 1..n : inputForm.inputs[i].focus <=> (i - 1 = inputForm.focusIndex)
            /\ Cardinality({i \in 1..n : inputForm.inputs[i].focus}) = 1

C21_FocusMovedAndTypedReached ==
    /\ showingInput
    /\ Len(inputForm.inputs) = 4
    /\ inputForm.focusIndex = 3
    /\ inputForm.inputs[4].focus
    /\ inputForm.inputs[4].value = <<"q", "5">>
    /\ entered.enters < 0
    /\ entered.forward < 0

\* C22: a form created from N labels has N fields in label order, all empty,
\* focusIndex 0 and only the first field focused; a menu item that opens a
\* form replaces whatever form the Model held, carrying no value over
C22_OpenedFormIsFresh ==
    currentView \in BackendViews =>
        \A c \in 0..(ItemCount(currentView) - 1) :
            LET sel == Selection(currentView, c)
                m == [M EXCEPT !.showingInput = FALSE, !.cursor = c]
                f == Update(m, KeyMsg("enter")).m.inputForm
            IN  sel.kind = "form" =>
                  /\ Len(f.inputs) = Len(sel.fields)
                  /\ \A i \in 1..Len(sel.fields) :
                        /\ f.inputs[i].Placeholder = sel.fields[i]
                        /\ f.inputs[i].value = <<>>
                        /\ f.inputs[i].focus <=> (i = 1)
                  /\ f.focusIndex = 0
                  /\ f.title = sel.title

C22_ReopenedAfterTypingReached ==
    /\ showingInput
    /\ ~last.form
    /\ last.kind = "key"
    /\ Typed(inputForm) = 0
    /\ inputForm.focusIndex = 0
    /\ Len(pending) = 1
    /\ pending[1].status = "running"
    /\ pending[1].args = << <<>>, <<"5">> >>

\* the operations whose numeric field is parsed as an int
IntOps == {"performAddToken", "performAuthorizeSpending", "performViewLogs"}

\* text was entered into the numeric field of op and does not parse
Unparsable(op, str) ==
    str # <<>> /\ IF op \in IntOps THEN ~AtoiOK(str) ELSE ~ParseFloatOK(str)

\* C23: for every operation with a numeric field, a submission whose numeric
\* value does not parse ends in an Error message and never calls the Remote
\* Operation Client
C23_UnparsableNeverReachesClient ==
    \A i \in 1..Len(pending) :
        (/\ pending[i].status = "running"
         /\ NumericArg(pending[i].op) > 0
         /\ Unparsable(pending[i].op,
                       pending[i].args[NumericArg(pending[i].op)])) =>
            \A b \in Backend :
                LET res == CmdBody(pending[i].op, pending[i].args, b)
                IN  res.type = "error" /\ ~res.called

\* C24 as stated: submitting a form whose numeric field does not parse hands
\* no Command to the scheduler
C24_UnparsableSubmitCreatesNoCommand ==
    [][(/\ showingInput
        /\ NumericArg(inputForm.submitFunc) > 0
        /\ Unparsable(inputForm.submitFunc,
                      FormValues(inputForm)[NumericArg(inputForm.submitFunc)])
        /\ last'.kind = "key")
          => Len(pending') <= Len(pending)]_vars

\* C24, amended: every submit hands one Command to the scheduler and leaves
\* the status message alone; an unparsable number is detected when that Command
\* runs, which then returns an Error without calling the client (View Logs
\* instead falls back to its default limit and calls the client)
C24_UnparsableDetectedInCommand ==
    [][SubmitStep =>
          LET new == pending'[Len(pending')]
              k == NumericArg(new.op)
          IN  /\ Len(pending') = Len(pending) + 1
              /\ new.status = "running"
              /\ new.op = inputForm.submitFunc
              /\ new.args = FormValues(inputForm)
              /\ message' = message
              /\ messageStyle' = messageStyle
              /\ (k > 0 /\ Unparsable(new.op, new.args[k])) =>
                    \A b \in Backend :
                        LET res == CmdBody(new.op, new.args, b)
                        IN  IF new.op = "performViewLogs"
                            THEN res.called
                            ELSE res.type = "error" /\ ~res.called]_vars

C24_InputErrorDeliveredReached ==
    /\ last.kind = "error"
    /\ last.form
    /\ currentView = tokenView
    /\ cursor = 1
    /\ message = <<"Error: ", "invalid decimals: ", "strconv: invalid syntax">>
    /\ messageStyle = errorStyle
    /\ pending = <<>>

\* a Success or Error message was delivered: the flag is reset and a status
\* message is set
Resolved ==
    /\ last.kind \in {"success", "error"}
    /\ ~loading
    /\ message # <<>>

ReportedSizes == {0, 80, 120}

\* C26: a Resize message stores the new width and height and changes nothing
\* else: view, cursor, status message, form-active, form contents and
\* in-flight flag are unchanged and no Command is returned
C26_ResizeStoresDimensionsOnly ==
    \A w \in ReportedSizes, h \in ReportedSizes :
        LET r == Update(M, WindowSizeMsg(w, h))
        IN  /\ r.m.width = w
            /\ r.m.height = h
            /\ r.m.currentView = currentView
            /\ r.m.cursor = cursor
            /\ r.m.message = message
            /\ r.m.messageStyle = messageStyle
            /\ r.m.showingInput = showingInput
            /\ r.m.inputForm = inputForm
            /\ r.m.loading = loading
            /\ r.m.loadingMsg = loadingMsg
            /\ r.m.client = client
            /\ r.cmd = NilCmd

C26_ResizedWithFormReached ==
    /\ last.kind = "resize"
    /\ last.form
    /\ width = 80
    /\ height = 24
    /\ showingInput
    /\ inputForm.focusIndex > 0
    /\ ~loading
    /\ cursor > 0
    /\ message # <<>>

\* the cursors that up / down reach in view v from the cursors in cs
NavigationStep(v, cs) ==
    cs \cup {Update([M EXCEPT !.currentView = v, !.cursor = c,
                              !.showingInput = FALSE], KeyMsg(k)).m.cursor :
                c \in cs, k \in {"up", "down"}}

RECURSIVE NavigationReach(_, _)
NavigationReach(v, cs) ==
    IF NavigationStep(v, cs) = cs THEN cs
    ELSE NavigationReach(v, NavigationStep(v, cs))

\* C27: in every sub-view some sequence of navigation keys takes the cursor
\* from 0 to the view's last menu item (Back)
C27_BackItemReachable ==
    \A v \in BackendViews : ItemCount(v) - 1 \in NavigationReach(v, {0})

\* C28: one opened form produces at most one Command: once the form has been
\* submitted, no further key event dispatches its operation again
C28_OneCommandPerForm == Len(pending) <= 1

\* C29, for the form opened in the step just before: when the Success or
\* Error of a Command dispatched earlier is delivered while that newer form is
\* active, the form stays active with its contents
C29_OldResultKeepsNewerForm ==
    [][(/\ last.kind = "key"
        /\ ~last.form
        /\ showingInput
        /\ \E i \in 1..Len(pending) : DeliveryStep(i))
          => (showingInput' /\ inputForm' = inputForm)]_vars

\* C30: while a form is active no key changes the view or the menu cursor;
\* up / down move the form focus, and esc only discards the form and clears
\* the status message, with no Command and without leaving the sub-view
C30_FormKeysLeaveMenuAlone ==
    showingInput =>
        \A key \in Keys :
            LET r == Update(M, KeyMsg(key))
            IN  /\ r.m.currentView = currentView
                /\ r.m.cursor = cursor
                /\ key \in {"up", "down"} =>
                      /\ r.m.showingInput
                      /\ r.m.inputForm =
                            Refocus(inputForm, CycleFocus(inputForm, key))
                      /\ r.cmd.kind # "op"
                /\ key = "esc" =>
                      /\ ~r.m.showingInput
                      /\ r.m.message = <<>>
                      /\ r.cmd = NilCmd
                      /\ r.m.currentView \in SubViews

C30_FormCancelledInSubViewReached ==
    /\ last.kind = "key"
    /\ last.form
    /\ ~showingInput
    /\ exit = "running"
    /\ message = <<>>
    /\ currentView = work.view
    /\ cursor = work.item
    /\ cursor > 0
    /\ Len(pending) > 0

\* C31: every transition from a sub-view to MainMenu leaves the status
\* message empty, be it made with the Back item, the Cancel key or the Quit key
C31_ReturnToMainMenuClearsMessage ==
    [][(currentView # mainMenuView /\ currentView' = mainMenuView)
          => message' = <<>>]_vars

\* C32: for every backend outcome, a failure reason or a response whose
\* string fields have any length, the body of a dispatched Command returns a
\* Success or an Error message and never aborts without one
C32_CommandBodyAlwaysReturns ==
    \A i \in 1..Len(pending) :
        pending[i].status = "running" =>
            \A b \in Backend :
                CmdBody(pending[i].op, pending[i].args, b).type
                    \in {"success", "error"}

\* C33: the client is fixed at construction; the view is a backend-dependent
\* sub-view only if a client is configured, and without a client no form is
\* open and no Command has been created
C33_NoClientNoBackendView ==
    /\ ~client => (currentView \notin BackendViews /\ ~showingInput
                   /\ pending = <<>>)
    /\ [][/\ client' = client
          /\ ~client' => (currentView' \notin BackendViews /\ ~showingInput'
                          /\ pending' = <<>>)]_vars

C33_RefusedWithoutClientReached ==
    /\ ~client
    /\ last.kind = "key"
    /\ last.from = mainMenuView
    /\ currentView = mainMenuView
    /\ cursor = 6
    /\ message = ApiKeyText
    /\ messageStyle = errorStyle
    /\ pending = <<>>

\* C34: a form is active only while the view is a backend-dependent sub-view,
\* never in MainMenu or Settings
C34_FormOnlyInBackendView == showingInput => currentView \in BackendViews

C34_FormKeptThroughResultAndKeysReached ==
    /\ showingInput
    /\ currentView = webhookView
    /\ inputForm.focusIndex > 0
    /\ last.kind = "key"
    /\ last.form
    /\ Len(pending) > 0
    /\ message # <<>>

\* C35: nothing in the program produces a Loading message: with messages
\* coming only from keys, resizes and the results of dispatched Commands, the
\* in-flight flag is false in every state, also while a Command is pending
C35_NeverLoading ==
    /\ ~loading
    /\ loadingMsg = <<>>
    /\ \A i \in 1..Len(pending) :
          /\ pending[i].status = "returned" => pending[i].msg.type # "loading"
          /\ pending[i].status = "running" =>
                \A b \in Backend :
                    CmdBody(pending[i].op, pending[i].args, b).type # "loading"

C35_CommandPendingNotLoadingReached ==
    /\ ~loading
    /\ Len(pending) = 2
    /\ pending[1].status = "returned"
    /\ pending[2].status = "running"
    /\ last.kind = "key"
    /\ exit = "running"

\* C37: from any state of a running program, two Cancel keys in a row leave
\* the view MainMenu with no form active, also with Commands pending
C37_TwoCancelsReachMainMenu ==
    exit \in {"running", "quitting"} =>
        LET r1 == Update(M, KeyMsg("esc"))
            r2 == Update(r1.m, KeyMsg("esc"))
        IN  /\ r2.m.currentView = mainMenuView
            /\ ~r2.m.showingInput
            /\ r1.cmd = NilCmd
            /\ r2.cmd = NilCmd

C37_CancelledOutOfSubmittedFormReached ==
    /\ exit = "running"
    /\ last.kind = "key"
    /\ last.from = work.view
    /\ ~last.form
    /\ currentView = mainMenuView
    /\ cursor = work.item
    /\ ~showingInput
    /\ message = <<>>
    /\ Len(pending) = 2

\* C36: once the terminal size is known, whenever the status message is
\* non-empty and neither the loading screen nor a form is displayed, the
\* screen rendered for the current view shows the status message, so a result
\* delivered in a sub-view is shown in that sub-view
C36_MessageShownInCurrentView ==
    (width # 0 /\ message # <<>> /\ ~loading /\ ~showingInput) =>
        /\ View(M).messageBox = message
        /\ View(M).messageBoxStyle = messageStyle

====
